---- MODULE Spec2Model ----
(***************************************************************************)
(* Model of scrape_sf.py: the Obsidian setlist parsing pipeline.           *)
(*                                                                         *)
(* Text representation.  A Python str is modelled as a sequence of ATOMS,  *)
(* each atom being a lexical unit that no regular expression of the        *)
(* program can split: a word, a run of digits, one whitespace character,   *)
(* one separator, a complete "(5:00)" / "[5:00]" time annotation, a date.  *)
(* Every re.* call of the source is an operator over such sequences that   *)
(* matches, consumes and replaces atoms as the pattern does characters.    *)
(* A document (content) is the sequence of its lines (content.splitlines). *)
(* The non-ASCII glyphs of the source are written U+2192, U+2013, U+2014.  *)
(***************************************************************************)
EXTENDS Integers, Sequences, FiniteSets, TLC

VARIABLES
  pc,           \* position of the run being modelled
  set_content,  \* argument of parse_songs_from_setlist
  songs,        \* its result
  content,      \* a document: the sequence of its lines
  metadata,     \* result of parse_obsidian_frontmatter
  sets,         \* result of parse_obsidian_setlist
  review,       \* result of extract_review_section
  vault,        \* [exists, md_files]: the vault directory as rglob lists it
  showsFile,    \* SHOWS_DB_FILE  [exists, members]
  songsFile,    \* SONGS_DB_FILE  [exists, members]
  htmlFile,     \* STATS_HTML_FILE [exists, members]
  shows_db,     \* main: shows_db
  obsidian_shows, \* scan_obsidian_vault: obsidian_shows
  songs_db,     \* main: songs_db
  scan_idx,     \* scan_obsidian_vault: position of the loop over md_files
  found,        \* the "Found show: {date} - {name}" lines printed by the scan
  status,       \* "running", "failed" (an exception left main) or "complete"
  run,          \* number of the current run of main
  pre           \* the persisted files as they were when the current run began

tokVars == <<set_content, songs>>
docVars == <<content, metadata, sets, review>>
fileVars == <<showsFile, songsFile, htmlFile>>
mainVars == <<vault, fileVars, shows_db, obsidian_shows, songs_db, scan_idx, found,
              status, run, pre>>
vars == <<pc, tokVars, docVars, mainVars>>

-----------------------------------------------------------------------------
(* Atom classes                                                            *)

NL == "\n"
WS == {" ", "\t", NL}
DigitAtoms == {"29", "1992", "3"}
ParenTime == {"(5:00)", "(12)"}
BracketTime == {"[5:00]", "[ 7 ]"}
Arrows == {"->", ">", "U+2192", "U+2013", "U+2014"}
Separators == {",", ";", "|"}

LowerTable ==
  [a \in {"April", "(Miami)", "Smooth", "Relax", "Down", "Date", "DATE"} |->
     CASE a = "April" -> "april"
       [] a = "(Miami)" -> "(miami)"
       [] a = "Smooth" -> "smooth"
       [] a = "Relax" -> "relax"
       [] a = "Down" -> "down"
       [] a = "Date" -> "date"
       [] a = "DATE" -> "date"]

\* str.lower() / re.IGNORECASE folding of one atom
Lower(a) == IF a \in DOMAIN LowerTable THEN LowerTable[a] ELSE a

LowerStr(s) == [i \in 1..Len(s) |-> Lower(s[i])]

-----------------------------------------------------------------------------
(* str helpers                                                             *)

\* s[i:] (1-based i)
Drop(s, i) == SubSeq(s, i, Len(s))

\* number of leading atoms of s[i:] that belong to class
RECURSIVE RunLen(_, _, _)
RunLen(s, i, class) ==
  IF i > Len(s) \/ s[i] \notin class THEN 0 ELSE 1 + RunLen(s, i + 1, class)

RECURSIVE RStripSet(_, _)
RStripSet(s, class) ==
  IF s = <<>> \/ s[Len(s)] \notin class THEN s
  ELSE RStripSet(SubSeq(s, 1, Len(s) - 1), class)

LStripSet(s, class) == Drop(s, RunLen(s, 1, class) + 1)

\* str.strip()
Strip(s) == LStripSet(RStripSet(s, WS), WS)

\* str.strip(ch)
StripCh(s, ch) == LStripSet(RStripSet(s, {ch}), {ch})

\* re.sub(r'\s+', ' ', s)
RECURSIVE CollapseWS(_)
CollapseWS(s) ==
  IF s = <<>> THEN <<>>
  ELSE IF s[1] \in WS THEN <<" ">> \o CollapseWS(Drop(s, RunLen(s, 1, WS) + 1))
  ELSE <<s[1]>> \o CollapseWS(Tail(s))

\* re.sub(r'\s*' + annotation, '', s): every annotation atom goes, with the
\* whitespace run in front of it
RECURSIVE RemoveAnnot(_, _, _)
RemoveAnnot(s, class, out) ==
  IF s = <<>> THEN out
  ELSE IF s[1] \in class THEN RemoveAnnot(Tail(s), class, RStripSet(out, WS))
  ELSE RemoveAnnot(Tail(s), class, Append(out, s[1]))

\* re.sub(r'\s+\d+$', '', s)
StripTrailingInt(s) ==
  IF Len(s) >= 2 /\ s[Len(s)] \in DigitAtoms /\ s[Len(s) - 1] \in WS
  THEN RStripSet(SubSeq(s, 1, Len(s) - 1), WS)
  ELSE s

-----------------------------------------------------------------------------
(* parse_songs_from_setlist                                                *)

SONGS_WITH_COMMAS ==
  << <<"April", " ", "29", ",", " ", "1992", " ", "(Miami)">>,
     <<"Smooth", ",", " ", "Relax", ",", " ", "Down">>,
     <<"To Be Young", " ", "(", "Is To Be Sad", ",", " ", "Is To Be High", ")">> >>

\* f"___PROTECTED_SONG_{idx}___", idx = 0, 1, 2 (1-based here)
Placeholder(idx) ==
  <<"___PROTECTED_SONG_0___", "___PROTECTED_SONG_1___", "___PROTECTED_SONG_2___">>[idx]

\* re.escape(song) matches at atom i of s, ignoring case
TitleAt(s, i, song) ==
  /\ i + Len(song) - 1 <= Len(s)
  /\ \A j \in 1..Len(song) : Lower(s[i + j - 1]) = Lower(song[j])

\* length of the match of patterns[p] at atom i of s, 0 when it does not match
\*   p = 1: song \s* \(\d+[\d:]*\)   p = 2: song \s* \[..\]   p = 3: song
PatLen(s, i, song, p) ==
  IF ~TitleAt(s, i, song) THEN 0
  ELSE IF p = 3 THEN Len(song)
  ELSE LET k == RunLen(s, i + Len(song), WS)
           a == i + Len(song) + k
       IN IF a <= Len(s) /\ s[a] \in (IF p = 1 THEN ParenTime ELSE BracketTime)
          THEN Len(song) + k + 1
          ELSE 0

\* re.search(patterns[p], s, re.IGNORECASE)
PatSearch(s, song, p) == \E i \in 1..Len(s) : PatLen(s, i, song, p) > 0

\* re.sub(patterns[p], placeholder, s, flags=re.IGNORECASE)
RECURSIVE PatSub(_, _, _, _, _)
PatSub(s, i, song, p, ph) ==
  IF i > Len(s) THEN <<>>
  ELSE LET n == PatLen(s, i, song, p)
       IN IF n > 0 THEN <<ph>> \o PatSub(s, i + n, song, p, ph)
          ELSE <<s[i]>> \o PatSub(s, i + 1, song, p, ph)

\* the pattern loop of one song: the first pattern that is found is
\* substituted, then break
FirstPattern(s, song) ==
  IF PatSearch(s, song, 1) THEN 1
  ELSE IF PatSearch(s, song, 2) THEN 2
  ELSE IF PatSearch(s, song, 3) THEN 3
  ELSE 0

\* the protection loop over SONGS_WITH_COMMAS from index idx on;
\* st = [content |-> protected_content, repl |-> keys of replacements]
RECURSIVE Protect(_, _)
Protect(st, idx) ==
  IF idx > Len(SONGS_WITH_COMMAS) THEN st
  ELSE LET song == SONGS_WITH_COMMAS[idx]
           p == FirstPattern(st.content, song)
       IN IF p = 0 THEN Protect(st, idx + 1)
          ELSE Protect([content |-> PatSub(st.content, 1, song, p, Placeholder(idx)),
                        repl |-> st.repl \cup {idx}], idx + 1)

\* re.sub(r'(?:->|>|...)', ',', protected_content)
ArrowsToCommas(s) == [i \in 1..Len(s) |-> IF s[i] \in Arrows THEN "," ELSE s[i]]

\* [x.strip() for x in re.split(r'\s*(?:,|;|\|)\s*', content) if x.strip()]
RECURSIVE SplitParts(_, _, _)
SplitParts(s, cur, out) ==
  LET flush == IF Strip(cur) = <<>> THEN out ELSE Append(out, Strip(cur))
  IN IF s = <<>> THEN flush
     ELSE IF s[1] \in Separators THEN SplitParts(Tail(s), <<>>, flush)
     ELSE SplitParts(Tail(s), Append(cur, s[1]), out)

\* lines 143-146 for one part
CleanSongName(part) ==
  LET s1 == RemoveAnnot(part, ParenTime, <<>>)
      s2 == RemoveAnnot(s1, BracketTime, <<>>)
      s3 == StripTrailingInt(s2)
  IN CollapseWS(Strip(RStripSet(s3, {"-"})))

\* the loop over parts, lines 137-149
RECURSIVE CollectSongs(_, _, _)
CollectSongs(parts, repl, out) ==
  IF parts = <<>> THEN out
  ELSE LET part == parts[1]
           hit == {idx \in repl : part = <<Placeholder(idx)>>}
       IN IF hit # {}
          THEN CollectSongs(Tail(parts), repl,
                            Append(out, SONGS_WITH_COMMAS[CHOOSE idx \in hit : TRUE]))
          ELSE LET song_name == CleanSongName(part)
               IN CollectSongs(Tail(parts), repl,
                               IF song_name # <<>> THEN Append(out, song_name) ELSE out)

parse_songs_from_setlist(text) ==
  IF Strip(text) = <<>> THEN <<>>
  ELSE LET st == Protect([content |-> text, repl |-> {}], 1)
           parts == SplitParts(ArrowsToCommas(st.content), <<>>, <<>>)
       IN CollectSongs(parts, st.repl, <<>>)

-----------------------------------------------------------------------------
(* dict: insertion-ordered, modelled as a sequence of <<key, value>> pairs *)
(* with distinct keys                                                      *)

DictKeys(d) == {d[i][1] : i \in 1..Len(d)}

DictHas(d, k) == k \in DictKeys(d)

DictIndex(d, k) == CHOOSE i \in 1..Len(d) : d[i][1] = k

\* d.get(k, default)
DictGet(d, k, default) == IF DictHas(d, k) THEN d[DictIndex(d, k)][2] ELSE default

\* d[k] = v: an existing key keeps its position, a new key goes last
DictSet(d, k, v) ==
  IF DictHas(d, k) THEN [d EXCEPT ![DictIndex(d, k)] = <<k, v>>]
  ELSE Append(d, <<k, v>>)

-----------------------------------------------------------------------------
(* clean_wiki_links                                                        *)

\* the atoms that hold a "]"
RBracket == {"]]"} \cup BracketTime

\* index of the "]]" closing a link opened at atom i ("[[" at i), whose text
\* atoms i+1..j-1 are all outside stop; 0 when the pattern does not match
LinkEnd(s, i, stop) ==
  LET n == RunLen(s, i + 1, {a \in {s[k] : k \in 1..Len(s)} : a \notin stop})
  IN IF n >= 1 /\ i + 1 + n <= Len(s) /\ s[i + 1 + n] = "]]" THEN i + 1 + n ELSE 0

\* \[\[([^\]|]+)\|([^\]]+)\]\] at atom i: <<index of "|", index of "]]">>
PipedLinkAt(s, i) ==
  IF s[i] # "[["  THEN <<0, 0>>
  ELSE LET n == RunLen(s, i + 1, {a \in {s[k] : k \in 1..Len(s)} :
                                    a \notin RBracket \cup {"|"}})
           bar == i + 1 + n
       IN IF n >= 1 /\ bar <= Len(s) /\ s[bar] = "|"
          THEN <<bar, LinkEnd(s, bar, RBracket)>>
          ELSE <<0, 0>>

\* re.sub(r'\[\[([^\]|]+)\|([^\]]+)\]\]', r'\2', s)
RECURSIVE SubPipedLinks(_, _)
SubPipedLinks(s, i) ==
  IF i > Len(s) THEN <<>>
  ELSE LET m == PipedLinkAt(s, i)
       IN IF m[2] > 0
          THEN SubSeq(s, m[1] + 1, m[2] - 1) \o SubPipedLinks(s, m[2] + 1)
          ELSE <<s[i]>> \o SubPipedLinks(s, i + 1)

\* re.sub(r'\[\[([^\]]+)\]\]', r'\1', s)
RECURSIVE SubPlainLinks(_, _)
SubPlainLinks(s, i) ==
  IF i > Len(s) THEN <<>>
  ELSE LET e == IF s[i] = "[[" THEN LinkEnd(s, i, RBracket) ELSE 0
       IN IF e > 0
          THEN SubSeq(s, i + 1, e - 1) \o SubPlainLinks(s, e + 1)
          ELSE <<s[i]>> \o SubPlainLinks(s, i + 1)

clean_wiki_links(s) == Strip(SubPlainLinks(SubPipedLinks(s, 1), 1))

-----------------------------------------------------------------------------
(* parse_obsidian_frontmatter                                              *)

DateAtoms == {"2023-05-01", "2023-05-02", "2023-05-03", "2023-05-04"}

IsBlank(line) == Strip(line) = <<>>

\* number of consecutive blank lines of doc from line i on
RECURSIVE BlankRun(_, _)
BlankRun(doc, i) ==
  IF i > Len(doc) \/ ~IsBlank(doc[i]) THEN 0 ELSE 1 + BlankRun(doc, i + 1)

\* ^---\s*\n : the line is "---" and trailing whitespace
FmOpens(line) == line # <<>> /\ line[1] = "---" /\ IsBlank(Tail(line))

\* \n--- : the line starts with "---"
FmCloses(line) == line # <<>> /\ line[1] = "---"

\* group(1) of r'^---\s*\n(.*?)\n---\s*' when the match starts at line i, as
\* <<first line, last line>> of the body; <<0, 0>> when there is no match at i.
\* The greedy \s* runs over the blank lines after line i; the lazy body ends
\* before the first closing line after its first line.
FmBodyAt(doc, i) ==
  IF ~FmOpens(doc[i]) THEN <<0, 0>>
  ELSE LET b == BlankRun(doc, i + 1)
           first == i + b + 1
           closers == {q \in (first + 1)..Len(doc) : FmCloses(doc[q])}
       IN IF closers # {}
          THEN <<first, (CHOOSE q \in closers : \A r \in closers : q <= r) - 1>>
          ELSE IF b >= 1 /\ first <= Len(doc) /\ FmCloses(doc[first])
          THEN <<first - 1, first - 1>>
          ELSE <<0, 0>>

\* re.search: the leftmost line at which the pattern matches
FmBody(doc) ==
  LET starts == {i \in 1..Len(doc) : FmBodyAt(doc, i)[1] > 0}
  IN IF starts = {} THEN <<>>
     ELSE LET i == CHOOSE i \in starts : \A j \in starts : i <= j
              m == FmBodyAt(doc, i)
          IN SubSeq(doc, m[1], m[2])

FmFound(doc) == \E i \in 1..Len(doc) : FmBodyAt(doc, i)[1] > 0

\* index of the first ":" of a line, 0 when it has none
ColonIndex(line) ==
  LET cs == {c \in 1..Len(line) : line[c] = ":"}
  IN IF cs = {} THEN 0 ELSE CHOOSE c \in cs : \A d \in cs : c <= d

\* dm = re.search(r'(\d{4}-\d{2}-\d{2})', value); dm.group(1)
FirstDate(value) ==
  LET ds == {i \in 1..Len(value) : value[i] \in DateAtoms}
  IN IF ds = {} THEN <<>> ELSE <<value[CHOOSE i \in ds : \A j \in ds : i <= j]>>

\* lines 34-45 for one match of the key/value pattern
FmEntry(md, rawkey, rawvalue) ==
  LET key == Strip(rawkey)
      value == StripCh(StripCh(Strip(rawvalue), "\""), "'")
  IN IF value = <<>> THEN md
     ELSE IF LowerStr(key) = <<"date">> /\ FirstDate(value) # <<>>
     THEN DictSet(md, key, FirstDate(value))
     ELSE DictSet(md, key, value)

\* re.finditer(r'^\s*([^:\n]+)\s*:\s*(.*?)\s*$', body, re.MULTILINE) from line
\* j of body on.  A line matches when it has a ":" after at least one other
\* atom.  The \s* after the ":" also runs over line ends: when nothing but
\* whitespace is left on the line, group(2) is the next non-blank line of the
\* body (whole, trimmed), and the match consumes that line.
RECURSIVE ParseFmBody(_, _, _)
ParseFmBody(body, j, md) ==
  IF j > Len(body) THEN md
  ELSE LET line == body[j]
           c == ColonIndex(line)
       IN IF c <= 1 THEN ParseFmBody(body, j + 1, md)
          ELSE LET rest == Drop(line, c + 1)
                   nxt == j + 1 + BlankRun(body, j + 1)
               IN IF ~IsBlank(rest)
                  THEN ParseFmBody(body, j + 1,
                                   FmEntry(md, SubSeq(line, 1, c - 1), rest))
                  ELSE IF nxt <= Len(body)
                  THEN ParseFmBody(body, nxt + 1,
                                   FmEntry(md, SubSeq(line, 1, c - 1), body[nxt]))
                  ELSE md

parse_obsidian_frontmatter(doc) ==
  IF ~FmFound(doc) THEN <<>> ELSE ParseFmBody(FmBody(doc), 1, <<>>)

-----------------------------------------------------------------------------
(* parse_obsidian_setlist and extract_review_section                       *)

\* the markers list: indices (1-based) of the lines with line.strip() == '---'
RECURSIVE Markers(_, _)
Markers(lines, i) ==
  IF i > Len(lines) THEN <<>>
  ELSE IF Strip(lines[i]) = <<"---">> THEN <<i>> \o Markers(lines, i + 1)
  ELSE Markers(lines, i + 1)

Stars == {"**", "***"}

\* re.match(r'\*{2,3}([^*:]+)\s*:\*{2,3}\s*(.+)', line): <<label, text>>
\* of a header line, <<>> when the line is no header
HeaderMatch(line) ==
  IF Len(line) < 5 \/ line[1] \notin Stars THEN <<>>
  ELSE LET n == RunLen(line, 2, {a \in {line[k] : k \in 1..Len(line)} :
                                   a \notin Stars \cup {"*", ":"}})
           c == 2 + n
       IN IF n >= 1 /\ c + 2 <= Len(line) /\ line[c] = ":" /\ line[c + 1] \in Stars
          THEN LET k == RunLen(line, c + 2, WS)
               IN IF c + 2 + k <= Len(line)
                  THEN <<Strip(SubSeq(line, 2, c - 1)), Drop(line, c + 2 + k)>>
                  ELSE <<>>
          ELSE <<>>

\* the loop of lines 93-104 over lines[idx .. last]
RECURSIVE SetlistLoop(_, _, _, _)
SetlistLoop(lines, idx, last, acc) ==
  IF idx > last THEN acc
  ELSE LET line == Strip(lines[idx])
           m == HeaderMatch(line)
       IN IF line # <<>> /\ m # <<>>
          THEN SetlistLoop(lines, idx + 1, last,
                           DictSet(acc, m[1], clean_wiki_links(m[2])))
          ELSE SetlistLoop(lines, idx + 1, last, acc)

\* parse_obsidian_setlist with the setlist running to the end of the document
\* whatever the number of markers
parse_obsidian_setlist_to_end(doc) ==
  LET markers == Markers(doc, 1)
  IN IF Len(markers) < 2 THEN <<>>
     ELSE SetlistLoop(doc, markers[2] + 1, Len(doc), <<>>)

parse_obsidian_setlist(doc) ==
  LET markers == Markers(doc, 1)
  IN IF Len(markers) < 2 THEN <<>>
     ELSE LET frontmatter_end == markers[2]
              setlist_end == IF Len(markers) >= 3 THEN markers[3] ELSE Len(doc) + 1
          IN SetlistLoop(doc, frontmatter_end + 1, setlist_end - 1, <<>>)

\* '\n'.join(lines)
RECURSIVE JoinLines(_)
JoinLines(lines) ==
  IF lines = <<>> THEN <<>>
  ELSE IF Len(lines) = 1 THEN lines[1]
  ELSE lines[1] \o <<NL>> \o JoinLines(Tail(lines))

MVP == <<"**", "MVP", ":", "**">>

\* \*\*MVP:\*\*\s*$ with re.MULTILINE at atom i of s: the length of the match,
\* 0 when there is none.  $ holds at the end of s and in front of every line
\* end; the greedy \s* gives back whitespace until it holds.
MvpLen(s, i) ==
  IF ~(i + 3 <= Len(s) /\ SubSeq(s, i, i + 3) = MVP) THEN 0
  ELSE LET w == RunLen(s, i + 4, WS)
           ok == {k \in 0..w : i + 4 + k > Len(s) \/ s[i + 4 + k] = NL}
       IN IF ok = {} THEN 0
          ELSE 4 + (CHOOSE k \in ok : \A l \in ok : l <= k)

\* re.sub(r'\*\*MVP:\*\*\s*$', '', s, flags=re.MULTILINE)
RECURSIVE SubMvp(_, _)
SubMvp(s, i) ==
  IF i > Len(s) THEN <<>>
  ELSE LET n == MvpLen(s, i)
       IN IF n > 0 THEN SubMvp(s, i + n) ELSE <<s[i]>> \o SubMvp(s, i + 1)

extract_review_section(doc) ==
  LET markers == Markers(doc, 1)
  IN IF Len(markers) < 3 THEN <<>>
     ELSE LET start_line == markers[3] + 1
              review_lines == IF Len(markers) >= 4
                              THEN SubSeq(doc, start_line, markers[4] - 1)
                              ELSE Drop(doc, start_line)
          IN Strip(SubMvp(Strip(JoinLines(review_lines)), 1))

-----------------------------------------------------------------------------
(* scan_obsidian_vault                                                     *)

\* re.match(r'^\d{4}-\d{2}-\d{2}$', stem) and '_' not in stem
StemIsDate(stem) == Len(stem) = 1 /\ stem[1] \in DateAtoms

\* lines 179-190: the effective date of a document, <<>> when none resolves
ResolveDate(md, stem) ==
  IF DictHas(md, <<"date">>) /\ Strip(DictGet(md, <<"date">>, <<>>)) # <<>>
  THEN Strip(DictGet(md, <<"date">>, <<>>))
  ELSE FirstDate(stem)

\* lines 201-214
show_data(date, md, setmap, rev, md_file) ==
  [date |-> date,
   venue |-> DictGet(md, <<"venue">>, <<"Unknown Venue">>),
   city |-> DictGet(md, <<"city">>, <<>>),
   state |-> DictGet(md, <<"state">>, <<>>),
   tour |-> DictGet(md, <<"tour">>, <<>>),
   show_number |-> DictGet(md, <<"show_number">>, <<>>),
   rating |-> DictGet(md, <<"rating">>, <<>>),
   sets |-> setmap,
   notes |-> IF rev # <<>> THEN <<rev>> ELSE <<>>,
   source |-> "obsidian",
   obsidian_file |-> md_file.name,
   url |-> <<>>]

\* one iteration of the loop of lines 165-215 on md_file:
\* [found |-> a show was built, date, show]
ScanOne(md_file) ==
  LET none == [found |-> FALSE, date |-> <<>>, show |-> <<>>]
  IN IF ~StemIsDate(md_file.stem) THEN none
     ELSE IF ~md_file.readable THEN none
     ELSE LET md == parse_obsidian_frontmatter(md_file.content)
              date == ResolveDate(md, md_file.stem)
              setmap == parse_obsidian_setlist(md_file.content)
          IN IF date = <<>> THEN none
             ELSE IF setmap = <<>> THEN none
             ELSE [found |-> TRUE, date |-> date,
                   show |-> show_data(date, md, setmap,
                                      extract_review_section(md_file.content), md_file)]

\* line 215 as obsidian_shows.setdefault(date, show_data)
StoreShowKeepFirst(shows, date, show) ==
  IF DictHas(shows, date) THEN shows ELSE DictSet(shows, date, show)

\* line 215: obsidian_shows[date] = show_data
StoreShow(shows, date, show) == DictSet(shows, date, show)

-----------------------------------------------------------------------------
(* build_song_database, generate_stats_html, load/save                     *)

\* a JSON number where the sets of a persisted show hold a string
JsonNumber == <<"#json-number">>

\* set_content.strip() raises AttributeError on a value that is no str
TokenizerRaises(text) == text = JsonNumber

\* show_data.get(field, default)
RecGet(show, field, default) == IF field \in DOMAIN show THEN show[field] ELSE default

\* lines 234-241 with an appearance added once per song, date and set
AddAppearanceOnce(song_db, song, show, set_name) ==
  LET play == [date |-> RecGet(show, "date", <<>>),
               url |-> RecGet(show, "url", <<>>),
               set |-> set_name]
      plays == DictGet(song_db, song, <<>>)
  IN IF \E k \in 1..Len(plays) : plays[k] = play THEN song_db
     ELSE DictSet(song_db, song, Append(plays, play))

\* lines 234-241
AddAppearance(song_db, song, show, set_name) ==
  DictSet(song_db, song,
          Append(DictGet(song_db, song, <<>>),
                 [date |-> RecGet(show, "date", <<>>),
                  url |-> RecGet(show, "url", <<>>),
                  set |-> set_name]))

RECURSIVE AddSongs(_, _, _, _)
AddSongs(song_db, names, show, set_name) ==
  IF names = <<>> THEN song_db
  ELSE AddSongs(AddAppearance(song_db, names[1], show, set_name),
                Tail(names), show, set_name)

\* the loop over show_data["sets"].items()
RECURSIVE AddSets(_, _, _)
AddSets(song_db, show, setmap) ==
  IF setmap = <<>> THEN song_db
  ELSE AddSets(AddSongs(song_db, parse_songs_from_setlist(setmap[1][2]), show, setmap[1][1]),
               show, Tail(setmap))

\* the loop over shows_db.values()
RECURSIVE AddShows(_, _)
AddShows(song_db, shows) ==
  IF shows = <<>> THEN song_db
  ELSE AddShows(AddSets(song_db, shows[1][2], RecGet(shows[1][2], "sets", <<>>)),
                Tail(shows))

\* line 227 as a song index that starts from the persisted one
NewSongDbFromFile == IF songsFile.exists THEN songsFile.members ELSE <<>>

\* line 227: song_db = {}
NewSongDb == <<>>

build_song_database(shows) == AddShows(NewSongDb, shows)

\* build_song_database raises when the tokenizer does
BuildRaises(shows) ==
  \E i \in 1..Len(shows) :
     LET setmap == RecGet(shows[i][2], "sets", <<>>)
     IN \E j \in 1..Len(setmap) : TokenizerRaises(setmap[j][2])

\* the date strings of the model in lexicographic order (the order of sorted())
SortedDates == <<"1999-12-31", "2023-05-01", "2023-05-02", "2023-05-03", "2023-05-04">>

DateRank(date) == CHOOSE r \in 1..Len(SortedDates) : SortedDates[r] = date[1]

\* sorted(plays, key=lambda x: x['date']): stable insertion sort
RECURSIVE InsertPlay(_, _)
InsertPlay(sorted, play) ==
  IF sorted = <<>> THEN <<play>>
  ELSE IF DateRank(play.date) < DateRank(sorted[Len(sorted)].date)
  THEN Append(InsertPlay(SubSeq(sorted, 1, Len(sorted) - 1), play), sorted[Len(sorted)])
  ELSE Append(sorted, play)

RECURSIVE SortPlays(_, _)
SortPlays(plays, sorted) ==
  IF plays = <<>> THEN sorted ELSE SortPlays(Tail(plays), InsertPlay(sorted, plays[1]))

\* play['date'].split('/')[0]
DateDisplay(date) == SubSeq(date, 1, RunLen(date, 1, {a \in {date[k] : k \in 1..Len(date)} : a # "/"}))

\* the html list: per song its name, the number of its plays, and one
\* <<date, set>> item per play in date order
RECURSIVE generate_stats_html(_)
generate_stats_html(db) ==
  IF db = <<>> THEN <<>>
  ELSE LET plays == SortPlays(db[1][2], <<>>)
       IN << [song |-> db[1][1],
              count |-> Len(db[1][2]),
              plays |-> [k \in 1..Len(plays) |->
                           <<DateDisplay(plays[k].date), plays[k].set>>]] >>
          \o generate_stats_html(Tail(db))

NoFile == [exists |-> FALSE, members |-> <<>>]

\* json.dump(data, f): the members of the object in the order of the dict
save_database(data) == [exists |-> TRUE, members |-> data]

\* json.load builds the dict member by member
RECURSIVE JsonObject(_, _)
JsonObject(members, d) ==
  IF members = <<>> THEN d
  ELSE JsonObject(Tail(members), DictSet(d, members[1][1], members[1][2]))

load_database(file) == IF file.exists THEN JsonObject(file.members, <<>>) ELSE <<>>

\* lines 291-292
RECURSIVE MergeInto(_, _)
MergeInto(db, shows) ==
  IF shows = <<>> THEN db
  ELSE MergeInto(DictSet(db, shows[1][1], shows[1][2]), Tail(shows))

-----------------------------------------------------------------------------
(* Specification of the tokenizer alone: the set text is any concatenation *)
(* of at most MaxChunks chunks.                                            *)

\* the pipeline variables of a specification that runs one parser alone
MainIdle ==
  /\ vault = [exists |-> FALSE, md_files |-> <<>>]
  /\ showsFile = NoFile /\ songsFile = NoFile /\ htmlFile = NoFile
  /\ shows_db = <<>> /\ obsidian_shows = <<>> /\ songs_db = <<>>
  /\ scan_idx = 1 /\ found = <<>> /\ status = "running" /\ run = 1
  /\ pre = [shows |-> NoFile, songs |-> NoFile, html |-> NoFile]

MaxChunks == 4

Title1 == SONGS_WITH_COMMAS[1]

TokChunks ==
  { Title1,
    <<" ", "(5:00)">>,
    <<"[5:00]">>,
    <<",", " ">>,
    <<" ", "->", " ">>,
    <<"Reba">>,
    <<" ", "reprise">>,
    <<" ", "3">>,
    <<" ", "-">> }

RECURSIVE Concat(_)
Concat(ss) == IF ss = <<>> THEN <<>> ELSE ss[1] \o Concat(Tail(ss))

ChunkSeqs(n) == UNION {[1..k -> TokChunks] : k \in 0..n}

TokInit ==
  /\ pc = "start"
  /\ set_content \in {Concat(cs) : cs \in ChunkSeqs(MaxChunks)}
  /\ songs = <<>>
  /\ content = <<>> /\ metadata = <<>> /\ sets = <<>> /\ review = <<>>
  /\ MainIdle

Tokenize ==
  /\ pc = "start"
  /\ songs' = parse_songs_from_setlist(set_content)
  /\ pc' = "done"
  /\ UNCHANGED <<set_content, docVars, mainVars>>

TokNext == Tokenize

SpecTok == TokInit /\ [][TokNext]_vars

-----------------------------------------------------------------------------
(* Specification of the frontmatter parser alone: the document is any      *)
(* sequence of at most MaxFmLines lines of FmPool.                         *)

MaxFmLines == 4

FmPool ==
  { <<"---">>,
    <<"venue", ":">>,
    <<"venue", ":", " ", "The Hall">>,
    <<"city", ":", " ", "'", "Boston", "'">>,
    <<"Date", ":", " ", "Mon", " ", "2023-05-01", " ", "20h">>,
    <<>> }

LineSeqs(pool, n) == UNION {[1..k -> pool] : k \in 0..n}

FmInit ==
  /\ pc = "start"
  /\ content \in LineSeqs(FmPool, MaxFmLines)
  /\ metadata = <<>>
  /\ set_content = <<>> /\ songs = <<>> /\ sets = <<>> /\ review = <<>>
  /\ MainIdle

ParseFrontmatter ==
  /\ pc = "start"
  /\ metadata' = parse_obsidian_frontmatter(content)
  /\ pc' = "done"
  /\ UNCHANGED <<tokVars, content, sets, review, mainVars>>

FmNext == ParseFrontmatter

SpecFm == FmInit /\ [][FmNext]_vars

-----------------------------------------------------------------------------
(* Specification of the section segmenter alone: the document is any       *)
(* sequence of at most MaxLines lines of SegPool, or three markers and at  *)
(* most MaxRevLines lines of RevPool.                                      *)

MaxLines == 6
MaxRevLines == 3

MarkerLine == <<"---">>

SegPool ==
  { MarkerLine,
    <<"**", "Set 1", ":", "**", " ", "Reba", " ", ">", " ", "Tweezer">>,
    <<" ", "***", "Encore", " ", ":", "***", "[[", "Songs/Reba", "|", "Reba", "]]", " ", "(5:00)">>,
    <<"Great", " ", "show">>,
    <<" ">> }

RevPool ==
  { <<"Great", " ", "show">>,
    <<"Great", " ", "show", " ", "**", "MVP", ":", "**">>,
    MVP,
    <<" ", "**", "MVP", ":", "**", " ">>,
    <<"**", "MVP", ":", "**", " ", "Trey">>,
    <<>> }

SegInit ==
  /\ pc = "start"
  /\ content \in LineSeqs(SegPool, MaxLines)
        \cup {<<MarkerLine, MarkerLine, MarkerLine>> \o r : r \in LineSeqs(RevPool, MaxRevLines)}
  /\ sets = <<>> /\ review = <<>>
  /\ set_content = <<>> /\ songs = <<>> /\ metadata = <<>>
  /\ MainIdle

ParseSetlist ==
  /\ pc = "start"
  /\ sets' = parse_obsidian_setlist(content)
  /\ pc' = "parsed"
  /\ UNCHANGED <<tokVars, content, metadata, review, mainVars>>

ExtractReview ==
  /\ pc = "parsed"
  /\ review' = extract_review_section(content)
  /\ pc' = "done"
  /\ UNCHANGED <<tokVars, content, metadata, sets, mainVars>>

SegNext == ParseSetlist \/ ExtractReview

SpecSeg == SegInit /\ [][SegNext]_vars

-----------------------------------------------------------------------------
(* Specification of main: the vault lists at most MaxFiles files of        *)
(* VaultPool in any order, the persisted files are those of PersistedPool, *)
(* and main is run at most MaxRuns times in a row.                         *)

MaxFiles == 3
MaxRuns == 2

Fm(ls) == <<MarkerLine>> \o ls \o <<MarkerLine>>

DocA ==
  [stem |-> <<"2023-05-01">>, name |-> "a/2023-05-01.md", readable |-> TRUE,
   content |->
     Fm(<< <<"date", ":", " ", "2023-05-01">>, <<"venue", ":", " ", "The Hall">> >>)
     \o << <<"**", "Set 1", ":", "**", " ", "Reba", " ", ">", " ", "April", " ", "29",
             ",", " ", "1992", " ", "(Miami)", " ", "(5:00)", ",", " ", "Reba">>,
           MarkerLine,
           <<"Great", " ", "show">>,
           MVP >>]

DocB ==
  [stem |-> <<"2023-05-02">>, name |-> "b/2023-05-02.md", readable |-> TRUE,
   content |->
     Fm(<< <<"date", ":", " ", "\"", "2023-05-01", "\"">>, <<"venue", ":", " ", "Club">> >>)
     \o << <<"**", "Set 1", ":", "**", " ", "Tweezer">>,
           <<"**", "Encore", ":", "**", " ", "[[", "Reba", "]]", " ", "3">> >>]

DocC ==
  [stem |-> <<"2023-05-03">>, name |-> "c/2023-05-03.md", readable |-> TRUE,
   content |->
     Fm(<< <<"Date", ":", " ", "2023-05-01">>, <<"city", ":", " ", "Boston">> >>)
     \o << <<"**", "Set 1", ":", "**", " ", "Tweezer", " ", "->", " ", "Tweezer">>,
           MarkerLine,
           <<"Loud">> >>]

DocD ==
  [stem |-> <<"2023-05-02">>, name |-> "d/2023-05-02.md", readable |-> TRUE,
   content |->
     Fm(<< <<"venue", ":">>, <<"city", ":", " ", "Boston">> >>)
     \o << <<"**", "Set 1", ":", "**", " ", "Reba", " ", "[5:00]", ";", " ", "Tweezer">> >>]

DocE ==
  [stem |-> <<"2023-05-04", "_", "notes">>, name |-> "a/2023-05-04_notes.md",
   readable |-> TRUE,
   content |->
     Fm(<< <<"date", ":", " ", "2023-05-04">> >>)
     \o << <<"**", "Set 1", ":", "**", " ", "Reba">> >>]

DocF ==
  [stem |-> <<"2023-05-04">>, name |-> "a/2023-05-04.md", readable |-> TRUE,
   content |->
     Fm(<< <<"date", ":", " ", "2023-05-04">> >>) \o << <<"Set 1", ":", " ", "Reba">> >>]

DocG ==
  [stem |-> <<"2023-05-03">>, name |-> "g/2023-05-03.md", readable |-> FALSE,
   content |-> <<>>]

VaultPool == {DocA, DocB, DocC, DocD, DocE, DocF, DocG}

\* the listings rglob can return: sequences of distinct files
Listings(n) ==
  UNION {{f \in [1..k -> VaultPool] : \A i, j \in 1..k : i # j => f[i] # f[j]} : k \in 0..n}

OldShow(date, setmap) ==
  [date |-> <<date>>, venue |-> <<"Old Venue">>, city |-> <<>>, state |-> <<>>,
   tour |-> <<>>, show_number |-> <<>>, rating |-> <<>>, sets |-> setmap,
   notes |-> << <<"old", " ", "notes">> >>, source |-> "web",
   obsidian_file |-> "", url |-> <<"http://x/", date>>]

StaleSongs ==
  [exists |-> TRUE,
   members |-> << << <<"Gone">>, <<[date |-> <<"1999-12-31">>, url |-> <<>>, set |-> <<"Set 9">>]>> >> >>]

\* <<shows file, songs file>> before the first run
PersistedPool ==
  { <<NoFile, NoFile>>,
    <<save_database(<< << <<"2023-05-01">>,
                          OldShow("2023-05-01", << << <<"Set 1">>, <<"Tweezer", ";", " ", "Reba", " ", "3">> >> >>) >> >>),
      StaleSongs>>,
    <<save_database(<< << <<"2023-05-03">>,
                          OldShow("2023-05-03", << << <<"Set 2">>, <<"Reba">> >> >>) >>,
                       << <<"1999-12-31">>,
                          OldShow("1999-12-31", << << <<"Set 1">>, <<"Reba", ",", "Reba">> >> >>) >> >>),
      NoFile>>,
    <<save_database(<< << <<"1999-12-31">>,
                          OldShow("1999-12-31", << << <<"Set 1">>, JsonNumber>> >>) >> >>),
      StaleSongs>> }

MainInit ==
  /\ pc = "start"
  /\ \E e \in BOOLEAN :
       vault \in {[exists |-> e, md_files |-> l] :
                    l \in IF e THEN Listings(MaxFiles) ELSE {<<>>}}
  /\ \E p \in PersistedPool : showsFile = p[1] /\ songsFile = p[2]
  /\ htmlFile = NoFile
  /\ shows_db = <<>> /\ obsidian_shows = <<>> /\ songs_db = <<>>
  /\ scan_idx = 1 /\ found = <<>> /\ status = "running" /\ run = 1
  /\ pre = [shows |-> showsFile, songs |-> songsFile, html |-> htmlFile]
  /\ set_content = <<>> /\ songs = <<>>
  /\ content = <<>> /\ metadata = <<>> /\ sets = <<>> /\ review = <<>>

Running(at) == pc = at /\ status = "running"

\* line 286
LoadDatabase ==
  /\ Running("start")
  /\ shows_db' = load_database(showsFile)
  /\ pc' = "scan"
  /\ UNCHANGED <<tokVars, docVars, vault, fileVars, obsidian_shows, songs_db,
                 scan_idx, found, status, run, pre>>

\* one iteration of the loop of scan_obsidian_vault
ScanFile ==
  /\ Running("scan")
  /\ vault.exists /\ scan_idx <= Len(vault.md_files)
  /\ LET md_file == vault.md_files[scan_idx]
         r == ScanOne(md_file)
     IN /\ obsidian_shows' = IF r.found THEN StoreShow(obsidian_shows, r.date, r.show)
                             ELSE obsidian_shows
        /\ found' = IF r.found THEN Append(found, <<r.date, md_file.name>>) ELSE found
  /\ scan_idx' = scan_idx + 1
  /\ UNCHANGED <<pc, tokVars, docVars, vault, fileVars, shows_db, songs_db, status, run, pre>>

\* scan_obsidian_vault returns: the vault is missing or the loop is over
ScanReturn ==
  /\ Running("scan")
  /\ ~vault.exists \/ scan_idx > Len(vault.md_files)
  /\ pc' = "merge"
  /\ UNCHANGED <<tokVars, docVars, mainVars>>

\* lines 291-292
MergeShows ==
  /\ Running("merge")
  /\ shows_db' = MergeInto(shows_db, obsidian_shows)
  /\ pc' = "save_shows"
  /\ UNCHANGED <<tokVars, docVars, vault, fileVars, obsidian_shows, songs_db,
                 scan_idx, found, status, run, pre>>

\* line 296
SaveShows ==
  /\ Running("save_shows")
  /\ showsFile' = save_database(shows_db)
  /\ pc' = "build"
  /\ UNCHANGED <<tokVars, docVars, vault, songsFile, htmlFile, shows_db, obsidian_shows,
                 songs_db, scan_idx, found, status, run, pre>>

\* line 297
BuildSongs ==
  /\ Running("build")
  /\ ~BuildRaises(shows_db)
  /\ songs_db' = build_song_database(shows_db)
  /\ pc' = "save_songs"
  /\ UNCHANGED <<tokVars, docVars, vault, fileVars, shows_db, obsidian_shows,
                 scan_idx, found, status, run, pre>>

\* line 297 when parse_songs_from_setlist raises: the exception leaves main
BuildFails ==
  /\ Running("build")
  /\ BuildRaises(shows_db)
  /\ status' = "failed"
  /\ UNCHANGED <<pc, tokVars, docVars, vault, fileVars, shows_db, obsidian_shows,
                 songs_db, scan_idx, found, run, pre>>

\* line 298
SaveSongs ==
  /\ Running("save_songs")
  /\ songsFile' = save_database(songs_db)
  /\ pc' = "html"
  /\ UNCHANGED <<tokVars, docVars, vault, showsFile, htmlFile, shows_db, obsidian_shows,
                 songs_db, scan_idx, found, status, run, pre>>

\* lines 301-303
SaveHtml ==
  /\ Running("html")
  /\ htmlFile' = [exists |-> TRUE, members |-> generate_stats_html(songs_db)]
  /\ pc' = "done"
  /\ status' = "complete"
  /\ UNCHANGED <<tokVars, docVars, vault, showsFile, songsFile, shows_db, obsidian_shows,
                 songs_db, scan_idx, found, run, pre>>

\* the process is killed between two steps of main
Crash ==
  /\ status = "running"
  /\ pc # "done"
  /\ status' = "failed"
  /\ UNCHANGED <<pc, tokVars, docVars, vault, fileVars, shows_db, obsidian_shows,
                 songs_db, scan_idx, found, run, pre>>

\* main is started again on the same vault and the files the last run left
Rerun ==
  /\ pc = "done" /\ status = "complete"
  /\ run < MaxRuns
  /\ run' = run + 1
  /\ pc' = "start"
  /\ status' = "running"
  /\ pre' = [shows |-> showsFile, songs |-> songsFile, html |-> htmlFile]
  /\ shows_db' = <<>> /\ obsidian_shows' = <<>> /\ songs_db' = <<>>
  /\ scan_idx' = 1 /\ found' = <<>>
  /\ UNCHANGED <<tokVars, docVars, vault, fileVars>>

MainNext ==
  \/ LoadDatabase \/ ScanFile \/ ScanReturn \/ MergeShows \/ SaveShows
  \/ BuildSongs \/ BuildFails \/ SaveSongs \/ SaveHtml \/ Crash \/ Rerun

SpecMain == MainInit /\ [][MainNext]_vars

-----------------------------------------------------------------------------
(* Properties                                                              *)

SeqCount(s, x) == Cardinality({i \in 1..Len(s) : s[i] = x})

Delims == Separators \cup Arrows

\* the atoms of s at which the first protected title stands verbatim
TitleOcc(s) == {i \in 1..Len(s) : i + Len(Title1) - 1 <= Len(s)
                                       /\ SubSeq(s, i, i + Len(Title1) - 1) = Title1}

\* nothing but whitespace between atom i and the separator (or the start of
\* the text) in front of it
LeftDelimited(s, i) ==
  LET before == RStripSet(SubSeq(s, 1, i - 1), WS)
  IN before = <<>> \/ before[Len(before)] \in Delims

\* the title at atom i is bare, or followed by one time annotation, and then
\* comes a separator or the end of the text
RightDelimited(s, i) ==
  LET a == i + Len(Title1) + RunLen(s, i + Len(Title1), WS)
      e == IF a <= Len(s) /\ s[a] \in ParenTime \cup BracketTime
           THEN a + 1 ELSE i + Len(Title1)
      after == LStripSet(Drop(s, e), WS)
  IN after = <<>> \/ after[1] \in Delims

TitleIsEntry(s) ==
  /\ TitleOcc(s) # {}
  /\ \A i \in TitleOcc(s) : LeftDelimited(s, i) /\ RightDelimited(s, i)

\* what the title falls into when it is split at its comma
TitlePieces == {<<"April", " ", "29">>, <<"April">>, <<"1992", " ", "(Miami)">>}

\* C1: whenever the protected title stands in the set text as a
\* separator-delimited entry, bare or with a time annotation, one or more
\* times, the tokenizer returns the title once per occurrence and returns no
\* piece of a title split at its comma.
C1_TitlePreserved ==
  (pc = "done" /\ TitleIsEntry(set_content)) =>
     /\ SeqCount(songs, Title1) = Cardinality(TitleOcc(set_content))
     /\ \A k \in 1..Len(songs) : songs[k] \notin TitlePieces

PlaceholderAtoms == {Placeholder(k) : k \in 1..Len(SONGS_WITH_COMMAS)}

\* C10: for a set text without placeholder tokens, no returned song name
\* holds a placeholder token, also when the protected title stands next to
\* other text without a separator.
C10_NoPlaceholderLeak ==
  (pc = "done" /\ \A i \in 1..Len(set_content) : set_content[i] \notin PlaceholderAtoms) =>
     \A k \in 1..Len(songs) : \A a \in 1..Len(songs[k]) : songs[k][a] \notin PlaceholderAtoms

\* a "key: value" line of a frontmatter block, its key and its value as the
\* mapping is to hold it
IsKvLine(line) == ColonIndex(line) > 1
KvKey(line) == Strip(SubSeq(line, 1, ColonIndex(line) - 1))
KvRaw(line) == StripCh(StripCh(Strip(Drop(line, ColonIndex(line) + 1)), "\""), "'")
KvValue(line) ==
  IF LowerStr(KvKey(line)) = <<"date">> /\ FirstDate(KvRaw(line)) # <<>>
  THEN FirstDate(KvRaw(line)) ELSE KvRaw(line)

\* C5: in a frontmatter block, a line with an empty value adds no entry for
\* its key, and every line with a value, the line after an empty-valued one
\* included, is an entry of the mapping with its own value (the last such
\* line of a key giving the value).
C5_EmptyValueSkipped ==
  (pc = "done" /\ FmFound(content)) =>
     LET body == FmBody(content)
         valued == {j \in 1..Len(body) : IsKvLine(body[j]) /\ KvRaw(body[j]) # <<>>}
         empties == {j \in 1..Len(body) : IsKvLine(body[j]) /\ KvRaw(body[j]) = <<>>}
     IN /\ \A j \in valued :
             (\A l \in valued : l > j => KvKey(body[l]) # KvKey(body[j]))
                => /\ DictHas(metadata, KvKey(body[j]))
                   /\ DictGet(metadata, KvKey(body[j]), <<>>) = KvValue(body[j])
        /\ \A j \in empties :
             (\A l \in valued : KvKey(body[l]) # KvKey(body[j]))
                => ~DictHas(metadata, KvKey(body[j]))

\* the marker lines of the document, and the k-th of them
MarkerSet == {i \in 1..Len(content) : Strip(content[i]) = MarkerLine}
NthMarker(k) == CHOOSE m \in MarkerSet : Cardinality({x \in MarkerSet : x <= m}) = k

\* the review text of a review region
ReviewOf(lines) == Strip(SubMvp(Strip(JoinLines(lines)), 1))

ReviewRegion ==
  Strip(JoinLines(SubSeq(content, NthMarker(3) + 1,
                         IF Cardinality(MarkerSet) >= 4 THEN NthMarker(4) - 1
                         ELSE Len(content))))

\* the region without its final line when that line is whitespace and the
\* MVP marker and nothing else, the region as it is otherwise
WithoutFinalMvpLine(s) ==
  LET nls == {i \in 1..Len(s) : s[i] = NL}
      last == IF nls = {} THEN 0 ELSE CHOOSE i \in nls : \A j \in nls : j <= i
  IN IF LStripSet(Drop(s, last + 1), WS) = MVP THEN Strip(SubSeq(s, 1, last)) ELSE s

\* C9: the review text is the joined, trimmed review region, less a final
\* line that is (whitespace and) the MVP marker alone; a marker at the end of
\* another line, or after other text on its line, stays.
C9_OnlyFinalMvpLineRemoved ==
  (pc = "done" /\ Cardinality(MarkerSet) >= 3) => review = WithoutFinalMvpLine(ReviewRegion)

-----------------------------------------------------------------------------

Files == vault.md_files

\* what the scan makes of each file of the listing
Yields == [i \in 1..Len(Files) |-> ScanOne(Files[i])]

\* the i-th file yields a show and no later file yields one of the same date
LastOfDate(ys, i) ==
  /\ ys[i].found
  /\ \A j \in (i + 1)..Len(ys) : ~(ys[j].found /\ ys[j].date = ys[i].date)

\* C2: of the documents that resolve to one date, the record of the one
\* enumerated last is the record of that date after the scan, in the merged
\* database and in the database main writes.
C2_LastEnumeratedWins ==
  pc \in {"merge", "save_shows", "build", "save_songs", "html", "done"} =>
     LET ys == Yields
     IN \A i \in 1..Len(ys) :
           LastOfDate(ys, i) =>
              /\ DictGet(obsidian_shows, ys[i].date, <<>>) = ys[i].show
              /\ pc \in {"save_shows", "build", "save_songs", "html", "done"}
                   => DictGet(shows_db, ys[i].date, <<>>) = ys[i].show
              /\ pc \in {"build", "save_songs", "html", "done"}
                   => DictGet(load_database(showsFile), ys[i].date, <<>>) = ys[i].show

\* main is done on a listing with two documents of one date and different
\* records
C2_Witness ==
  /\ pc = "done"
  /\ LET ys == Yields
     IN \E i, j \in 1..Len(ys) :
           /\ i < j /\ ys[i].found /\ ys[j].found
           /\ ys[i].date = ys[j].date
           /\ ys[i].show # ys[j].show

\* C3: a second run in a row on the same vault leaves the persisted song index
\* as the first run left it (keys and appearance lists, in order) and the same
\* set of dates in the persisted show database.
C3_Idempotent ==
  (pc = "done" /\ run >= 2) =>
     /\ songsFile = pre.songs
     /\ DictKeys(showsFile.members) = DictKeys(pre.shows.members)

\* a second run is done whose database holds a show of the vault and a show
\* that was persisted before, with a song index of several songs
C3_Witness ==
  /\ pc = "done" /\ run = 2
  /\ found # <<>>
  /\ \E d \in DictKeys(showsFile.members) : \A k \in 1..Len(found) : found[k][1] # d
  /\ Len(songsFile.members) >= 2

\* the tokens of the sets of a show, by label
TokensOf(show, label) == parse_songs_from_setlist(DictGet(show.sets, label, <<>>))

\* C4: for a database of one assembled show, every appearance of a song
\* carries the date of the show and the label of a set of it, the number of
\* its appearances under a label is the number of times the tokenizer returns
\* the song for that set, and every key of the index is such a song.
C4_Counts ==
  (pc \in {"save_songs", "html", "done"} /\ Len(shows_db) = 1
     /\ shows_db[1][2].source = "obsidian") =>
     LET show == shows_db[1][2]
         labels == DictKeys(show.sets)
         tokens == UNION {{TokensOf(show, l)[k] : k \in 1..Len(TokensOf(show, l))} : l \in labels}
     IN /\ DictKeys(songs_db) = tokens
        /\ \A n \in tokens :
             LET plays == DictGet(songs_db, n, <<>>)
             IN /\ \A k \in 1..Len(plays) :
                     plays[k].date = show.date /\ plays[k].set \in labels
                /\ \A l \in labels :
                     Cardinality({k \in 1..Len(plays) : plays[k].set = l})
                       = SeqCount(TokensOf(show, l), n)

\* the index of one assembled show in which a song is played twice in a set
C4_Witness ==
  /\ pc = "done" /\ Len(shows_db) = 1 /\ shows_db[1][2].source = "obsidian"
  /\ \E l \in DictKeys(shows_db[1][2].sets) : \E n \in DictKeys(songs_db) :
        SeqCount(TokensOf(shows_db[1][2], l), n) >= 2

\* the file of the listing with this name
FileNamed(name) == CHOOSE f \in {Files[i] : i \in 1..Len(Files)} : f.name = name

\* C6: the date under which a document is recorded is the date of its
\* frontmatter whenever the frontmatter has a date field, whatever the case
\* of the key, and the date of the file name only when it has none.
C6_FrontmatterDateWins ==
  \A k \in 1..Len(found) :
     LET f == FileNamed(found[k][2])
         md == parse_obsidian_frontmatter(f.content)
         dates == {i \in 1..Len(md) : LowerStr(md[i][1]) = <<"date">>}
     IN IF dates # {} THEN \E i \in dates : found[k][1] = md[i][2]
        ELSE found[k][1] = FirstDate(f.stem)

\* C7: while main has not computed the song index of the run (it is loading,
\* scanning, merging or building the index), and so also when it fails
\* there, every persisted file is as it was before the run.
C7_FilesUntouched ==
  pc \in {"start", "scan", "merge", "build"} =>
     /\ showsFile = pre.shows
     /\ songsFile = pre.songs
     /\ htmlFile = pre.html

====
